---- MODULE Spec2Model ----
(***************************************************************************)
(* A model of har_inspector: HarParser (parser.py) driven the way main()   *)
(* (cli.py) drives it: load a source, run one query (get_endpoints,        *)
(* get_api_endpoints or get_unique_domains), optionally export the         *)
(* returned endpoint list to an output file.                               *)
(*                                                                         *)
(* Python str values are sequences of one-character strings, so that       *)
(* urlparse, re.search, os.path.splitext, str.lower and '|'.join are       *)
(* computed on the characters.  Python values whose type varies (the       *)
(* decoded document, optional arguments, post_data) carry a type tag t.    *)
(***************************************************************************)
EXTENDS Integers, Sequences, FiniteSets, TLC

\* ------------------------------------------------------------------------
\* Bounds of the model.
\* ------------------------------------------------------------------------
\* Longest entries list of a modelled document.
MaxEntries == 2
\* Longest caller-supplied api_patterns list.
MaxPatterns == 2

\* ------------------------------------------------------------------------
\* Characters and strings.
\* ------------------------------------------------------------------------
UpperLetters == <<"A", "B", "C", "D", "E", "F", "G", "H", "I", "J", "K", "L", "M", "N", "O", "P", "Q", "R", "S", "T", "U", "V", "W", "X", "Y", "Z">>
LowerLetters == <<"a", "b", "c", "d", "e", "f", "g", "h", "i", "j", "k", "l", "m", "n", "o", "p", "q", "r", "s", "t", "u", "v", "w", "x", "y", "z">>
Digits == {"0", "1", "2", "3", "4", "5", "6", "7", "8", "9"}
DigitSeq == <<"0", "1", "2", "3", "4", "5", "6", "7", "8", "9">>

Range(s) == {s[i] : i \in 1..Len(s)}
IsUpper(c) == c \in Range(UpperLetters)
IsAlpha(c) == c \in Range(UpperLetters) \cup Range(LowerLetters)

\* str.lower(), one character.
LowerChar(c) ==
    IF IsUpper(c)
    THEN LowerLetters[CHOOSE i \in 1..Len(UpperLetters) : UpperLetters[i] = c]
    ELSE c

\* str.lower().
RECURSIVE lower(_)
lower(s) == IF s = <<>> THEN <<>> ELSE <<LowerChar(Head(s))>> \o lower(Tail(s))

\* str.find(c) from position `from`, 1-based; 0 when c does not occur.
RECURSIVE Find(_, _, _)
Find(s, c, from) ==
    IF from > Len(s) THEN 0
    ELSE IF s[from] = c THEN from
    ELSE Find(s, c, from + 1)

\* The position of the first character of `chars` at or after `from`;
\* Len(s) + 1 when there is none.
RECURSIVE FindAny(_, _, _)
FindAny(s, chars, from) ==
    IF from > Len(s) THEN Len(s) + 1
    ELSE IF s[from] \in chars THEN from
    ELSE FindAny(s, chars, from + 1)

\* `needle in haystack` on two str values.
IsSubstring(needle, hay) ==
    \E i \in 1..(Len(hay) - Len(needle) + 1) : SubSeq(hay, i, i + Len(needle) - 1) = needle

\* sep.join(parts).
RECURSIVE join(_, _)
join(sep, parts) ==
    IF parts = <<>> THEN <<>>
    ELSE IF Len(parts) = 1 THEN parts[1]
    ELSE parts[1] \o sep \o join(sep, Tail(parts))

\* str.split(c).
RECURSIVE split(_, _)
split(s, c) ==
    LET i == Find(s, c, 1)
    IN  IF i = 0 THEN <<s>>
        ELSE <<SubSeq(s, 1, i - 1)>> \o split(SubSeq(s, i + 1, Len(s)), c)

\* str(n) for n >= 0.
RECURSIVE str_int(_)
str_int(n) == IF n < 10 THEN <<DigitSeq[n + 1]>> ELSE str_int(n \div 10) \o <<DigitSeq[(n % 10) + 1]>>

\* ------------------------------------------------------------------------
\* Python values.
\* ------------------------------------------------------------------------
PyNone == [t |-> "None"]
PyStr(s) == [t |-> "str", s |-> s]
PyInt(n) == [t |-> "int", n |-> n]
PyBool(b) == [t |-> "bool", b |-> b]
PyList(items) == [t |-> "list", items |-> items]
PyDict(d) == [t |-> "dict", d |-> d]
\* {} : a dict without keys.
EmptyDict == [k \in {} |-> PyNone]

\* bool(v), as `if v` and `v and ...` evaluate it.
Truthy(v) ==
    CASE v.t = "None" -> FALSE
      [] v.t = "str" -> v.s # <<>>
      [] v.t = "int" -> v.n # 0
      [] v.t = "bool" -> v.b
      [] v.t = "list" -> v.items # <<>>
      [] v.t = "dict" -> DOMAIN v.d # {}

\* `k in v` for a str k: "true", "false" or the exception raised.
PyIn(k, v) ==
    CASE v.t = "dict" -> IF k \in DOMAIN v.d THEN "true" ELSE "false"
      [] v.t = "list" -> IF \E i \in 1..Len(v.items) : v.items[i] = PyStr(k) THEN "true" ELSE "false"
      [] v.t = "str" -> IF IsSubstring(k, v.s) THEN "true" ELSE "false"
      [] OTHER -> "TypeError"

\* dict.get(k, default) on a dict whose keys are field names.
Get(d, k, default) == IF k \in DOMAIN d THEN d[k] ELSE default

\* ------------------------------------------------------------------------
\* urllib.parse.urlparse, as called on parser.py line 64 and line 136: the
\* scheme, netloc and path components of a url.  ok is FALSE where urlparse
\* raises ValueError ("Invalid IPv6 URL": a netloc with one of "[" and "]"
\* but not the other).  The urls of the model hold no ";", control
\* characters or non-ASCII characters, which urlparse treats specially.
\* ------------------------------------------------------------------------
SchemeChars == Range(UpperLetters) \cup Range(LowerLetters) \cup Digits \cup {"+", "-", "."}

urlparse(url) ==
    LET i == Find(url, ":", 1)
        hasScheme == /\ i > 1
                     /\ IsAlpha(url[1])
                     /\ \A k \in 1..(i - 1) : url[k] \in SchemeChars
        scheme == IF hasScheme THEN lower(SubSeq(url, 1, i - 1)) ELSE <<>>
        rest == IF hasScheme THEN SubSeq(url, i + 1, Len(url)) ELSE url
        hasNetloc == Len(rest) >= 2 /\ rest[1] = "/" /\ rest[2] = "/"
        delim == FindAny(rest, {"/", "?", "#"}, 3)
        netloc == IF hasNetloc THEN SubSeq(rest, 3, delim - 1) ELSE <<>>
        afterNetloc == IF hasNetloc THEN SubSeq(rest, delim, Len(rest)) ELSE rest
        noFragment == SubSeq(afterNetloc, 1, FindAny(afterNetloc, {"#"}, 1) - 1)
        path == SubSeq(noFragment, 1, FindAny(noFragment, {"?"}, 1) - 1)
    IN  [ok |-> ~(hasNetloc /\ (("[" \in Range(netloc)) # ("]" \in Range(netloc)))),
         scheme |-> scheme,
         netloc |-> netloc,
         path |-> path]

\* ------------------------------------------------------------------------
\* re.search(pattern, string) (parser.py line 81) for the patterns of the
\* model: alternatives separated by "|", each a run of items; an item is a
\* literal character, "." (any character), "\d" (a digit) or an escaped
\* character, optionally followed by "+"; "$" matches at the end.
\* ------------------------------------------------------------------------
AtomWidth(alt, i) == IF alt[i] = "\\" THEN 2 ELSE 1

AtomMatches(alt, i, ch) ==
    IF alt[i] = "\\"
    THEN IF alt[i + 1] = "d" THEN ch \in Digits ELSE ch = alt[i + 1]
    ELSE IF alt[i] = "." THEN TRUE ELSE ch = alt[i]

\* Whether items i.. of the alternative match string s from position j on.
RECURSIVE MatchAt(_, _, _, _)
MatchAt(alt, i, s, j) ==
    IF i > Len(alt) THEN TRUE
    ELSE IF alt[i] = "$" THEN j = Len(s) + 1 /\ MatchAt(alt, i + 1, s, j)
    ELSE LET w == AtomWidth(alt, i)
             plus == i + w <= Len(alt) /\ alt[i + w] = "+"
         IN  IF plus
             THEN \E k \in 1..(Len(s) - j + 1) :
                      /\ \A m \in j..(j + k - 1) : AtomMatches(alt, i, s[m])
                      /\ MatchAt(alt, i + w + 1, s, j + k)
             ELSE /\ j <= Len(s)
                  /\ AtomMatches(alt, i, s[j])
                  /\ MatchAt(alt, i + w, s, j + 1)

\* re.search: a match of some alternative starting anywhere in s.
re_search(pattern, s) ==
    LET alts == split(pattern, "|")
    IN  \E a \in 1..Len(alts) : \E j \in 1..(Len(s) + 1) : MatchAt(alts[a], 1, s, j)

\* ------------------------------------------------------------------------
\* json.loads(text) (parser.py line 100) on the body texts of the model:
\* the literals null, true and false, a non-negative integer, "{}" and
\* "[]" decode; every other text of the model is not JSON.  A text that is
\* not a str raises TypeError.
\* ------------------------------------------------------------------------
RECURSIVE int_of(_)
int_of(s) ==
    IF s = <<>> THEN 0
    ELSE 10 * int_of(SubSeq(s, 1, Len(s) - 1))
         + ((CHOOSE i \in 1..10 : DigitSeq[i] = s[Len(s)]) - 1)

json_loads(text) ==
    IF text.t # "str" THEN [err |-> "TypeError", value |-> PyNone]
    ELSE LET s == text.s
         IN  CASE s = <<"n", "u", "l", "l">> -> [err |-> "none", value |-> PyNone]
               [] s = <<"t", "r", "u", "e">> -> [err |-> "none", value |-> PyBool(TRUE)]
               [] s = <<"f", "a", "l", "s", "e">> -> [err |-> "none", value |-> PyBool(FALSE)]
               [] s = <<"{", "}">> -> [err |-> "none", value |-> PyDict(EmptyDict)]
               [] s = <<"[", "]">> -> [err |-> "none", value |-> PyList(<<>>)]
               [] /\ s # <<>>
                  /\ Range(s) \subseteq Digits
                  /\ (Len(s) > 1 => s[1] # "0") -> [err |-> "none", value |-> PyInt(int_of(s))]
               [] OTHER -> [err |-> "JSONDecodeError", value |-> PyNone]


\* ------------------------------------------------------------------------
\* The strings of the model.
\* ------------------------------------------------------------------------
S_log == <<"l", "o", "g">>
S_entries == <<"e", "n", "t", "r", "i", "e", "s">>
S_x == <<"x">>

\* Request urls.
U_a_v1 == <<"h", "t", "t", "p", "s", ":", "/", "/", "a", ".", "i", "o", "/", "v", "1", "/", "u", "?", "p", "=", "1">>
U_b_login == <<"h", "t", "t", "p", ":", "/", "/", "b", ".", "i", "o", "/", "l", "o", "g", "i", "n">>
U_rel_json == <<"/", "x", ".", "j", "s", "o", "n">>
U_A_gql == <<"H", "T", "T", "P", ":", "/", "/", "A", ".", "i", "o", "/", "g", "q", "l">>
U_bad == <<"h", "t", "t", "p", ":", "/", "/", "[", "a", "/", "p">>
U_b_api == <<"h", "t", "t", "p", ":", "/", "/", "b", ".", "i", "o", "/", "a", "p", "i", "/">>

\* Domains and methods.
D_a == <<"a", ".", "i", "o">>
M_GET == <<"G", "E", "T">>
M_POST == <<"P", "O", "S", "T">>
M_get == <<"g", "e", "t">>

\* The default api patterns of get_api_endpoints (parser.py lines 153-160).
P_api == <<"/", "a", "p", "i", "/">>
P_ver == <<"/", "v", "\\", "d", "+", "/">>
P_rest == <<"/", "r", "e", "s", "t", "/">>
P_graphql == <<"/", "g", "r", "a", "p", "h", "q", "l">>
P_gql == <<"/", "g", "q", "l">>
P_json == <<"\\", ".", "j", "s", "o", "n", "$">>
\* A pattern a caller supplies.
P_login == <<"/", "l", "o", "g", "i", "n">>

\* Request body texts.
T_null == <<"n", "u", "l", "l">>
T_one == <<"1">>
T_form == <<"a", "=", "b">>

\* Header and query-parameter names and values.
H_A == <<"A">>
H_C == <<"C">>
V_1 == <<"1">>
V_2 == <<"2">>
V_j == <<"j">>

\* Output file names.
O_json == <<"o", ".", "j", "s", "o", "n">>
O_JSON == <<"o", ".", "J", "S", "O", "N">>
O_csv == <<"o", ".", "c", "s", "v">>
O_Csv == <<"o", ".", "C", "s", "v">>
O_txt == <<"o", ".", "t", "x", "t">>
O_none == <<"o">>
O_dotcsv == <<".", "c", "s", "v">>
O_bak == <<"o", ".", "j", "s", "o", "n", ".", "b", "a", "k">>
O_dir == <<"a", ".", "c", "s", "v", "/", "o">>
O_dot == <<"o", ".", "c", "s", "v", ".">>

\* The extensions export_endpoints knows (parser.py lines 175 and 178).
X_json == <<".", "j", "s", "o", "n">>
X_csv == <<".", "c", "s", "v">>
\* parser.py line 181.
NoEndpointsFound == <<"N", "o", " ", "e", "n", "d", "p", "o", "i", "n", "t", "s", " ", "f", "o", "u", "n", "d">>

\* The keys of flat_ep, in order (parser.py lines 188-195).
F_url == <<"u", "r", "l">>
F_method == <<"m", "e", "t", "h", "o", "d">>
F_protocol == <<"p", "r", "o", "t", "o", "c", "o", "l">>
F_domain == <<"d", "o", "m", "a", "i", "n">>
F_path == <<"p", "a", "t", "h">>
F_status_code == <<"s", "t", "a", "t", "u", "s", "_", "c", "o", "d", "e">>
F_response_size == <<"r", "e", "s", "p", "o", "n", "s", "e", "_", "s", "i", "z", "e">>
F_time == <<"t", "i", "m", "e">>

\* ------------------------------------------------------------------------
\* Documents: what json.load can return.  A dict with str keys is a
\* function from the keys; an entry of the entries list, and what it holds,
\* is a record whose fields are the keys present.
\* ------------------------------------------------------------------------
\* GET https://a.io/v1/u?p=1 with a repeated header name and a body whose
\* text is null.
E_get_v1 ==
    [request |-> [method |-> M_GET, url |-> U_a_v1,
                  headers |-> <<[name |-> H_A, value |-> V_1], [name |-> H_C, value |-> V_j],
                                [name |-> H_A, value |-> V_2]>>,
                  queryString |-> <<[name |-> <<"p">>, value |-> V_1]>>,
                  postData |-> [text |-> PyNone]],
     response |-> [status |-> 200, bodySize |-> 1024],
     time |-> 150]
\* POST http://b.io/login with a body that is not JSON.
E_post_login ==
    [request |-> [method |-> M_POST, url |-> U_b_login,
                  headers |-> <<[name |-> H_C, value |-> V_j]>>,
                  postData |-> [text |-> PyStr(T_form)]],
     response |-> [status |-> 200, bodySize |-> 512],
     time |-> 200]
\* An authority-less url, no method, no response; header items without a
\* name or without a value; the body text is the JSON literal null.
E_rel_json ==
    [request |-> [url |-> U_rel_json,
                  headers |-> <<[value |-> V_1], [name |-> H_A]>>,
                  queryString |-> <<[name |-> H_A, value |-> V_1], [name |-> H_A]>>,
                  postData |-> [text |-> PyStr(T_null)]]]
\* {} : an entry without request, response and time.
E_empty == [k \in {} |-> PyNone]
\* An upper-case scheme and host, a lower-case method, a body without text.
E_gql ==
    [request |-> [method |-> M_get, url |-> U_A_gql, postData |-> [k \in {} |-> PyNone]],
     response |-> [status |-> 404],
     time |-> 7]
\* A url urlparse rejects.
E_bad_url ==
    [request |-> [method |-> M_GET, url |-> U_bad],
     response |-> [status |-> 200, bodySize |-> 3]]
\* POST http://b.io/api/ with a JSON body and an explicit status 0.
E_post_api ==
    [request |-> [method |-> M_POST, url |-> U_b_api, postData |-> [text |-> PyStr(T_one)]],
     response |-> [status |-> 0, bodySize |-> 20],
     time |-> 9]
EntryPool == {E_get_v1, E_post_login, E_rel_json, E_empty, E_gql, E_bad_url, E_post_api}

\* The lists of at most n elements of S.
RECURSIVE SeqsUpTo(_, _)
SeqsUpTo(S, n) ==
    IF n = 0 THEN {<<>>}
    ELSE LET shorter == SeqsUpTo(S, n - 1)
         IN  shorter \cup {Append(q, x) : q \in {r \in shorter : Len(r) = n - 1}, x \in S}

\* A document with an entries list.
HarDocument(entries) == PyDict(S_log :> PyDict(S_entries :> entries))

\* Documents with an entries list.
DocsWithEntries == {HarDocument(es) : es \in SeqsUpTo(EntryPool, MaxEntries)}

\* Documents without one: no 'log' key, or a 'log' value without an
\* 'entries' key, of each JSON type.
DocsWithoutEntries ==
    {PyNone, PyInt(5), PyStr(S_log), PyStr(S_x), PyList(<<>>), PyList(<<PyStr(S_log)>>),
     PyDict(EmptyDict), PyDict(S_x :> PyInt(5)),
     PyDict(S_log :> PyNone), PyDict(S_log :> PyInt(5)),
     PyDict(S_log :> PyStr(S_entries)), PyDict(S_log :> PyStr(S_x)),
     PyDict(S_log :> PyList(<<>>)), PyDict(S_log :> PyList(<<PyStr(S_entries)>>)),
     PyDict(S_log :> PyDict(EmptyDict)), PyDict(S_log :> PyDict(S_x :> PyInt(5)))}

Documents == DocsWithEntries \cup DocsWithoutEntries

\* ------------------------------------------------------------------------
\* Sources: what har_file_path may name.  The content of a regular file is
\* either a JSON text, given by the value it denotes, or not JSON.
\* ------------------------------------------------------------------------
MissingSource == [path |-> "missing.har", kind |-> "missing"]
DirectorySource == [path |-> "captures", kind |-> "directory"]
DeniedSource == [path |-> "denied.har", kind |-> "denied"]
NotJsonSource == [path |-> "notes.har", kind |-> "file", json |-> FALSE]
JsonSource(value) == [path |-> "capture.har", kind |-> "file", json |-> TRUE, value |-> value]

Sources ==
    {MissingSource, DirectorySource, DeniedSource, NotJsonSource}
    \cup {JsonSource(doc) : doc \in Documents}


\* ------------------------------------------------------------------------
\* HarParser._load_har_file (parser.py lines 22-35).
\* ------------------------------------------------------------------------
\* open(har_file_path, 'r'): the content, or the OSError open raises.
py_open(source) ==
    CASE source.kind = "missing" -> [err |-> "FileNotFoundError", content |-> source]
      [] source.kind = "directory" -> [err |-> "IsADirectoryError", content |-> source]
      [] source.kind = "denied" -> [err |-> "PermissionError", content |-> source]
      [] OTHER -> [err |-> "none", content |-> source]

\* json.load(f): the decoded value, or JSONDecodeError.
json_load(content) ==
    IF content.json
    THEN [err |-> "none", value |-> content.value]
    ELSE [err |-> "JSONDecodeError", value |-> PyNone]

\* The try statement: JSONDecodeError is raised again as ValueError,
\* FileNotFoundError as FileNotFoundError; any other exception propagates.
load_har_file(source) ==
    LET f == py_open(source)
    IN  IF f.err # "none" THEN [err |-> f.err, ret |-> PyNone]
        ELSE LET decoded == json_load(f.content)
             IN  IF decoded.err = "JSONDecodeError"
                 THEN [err |-> "ValueError", ret |-> PyNone]
                 ELSE [err |-> decoded.err, ret |-> decoded.value]

\* ------------------------------------------------------------------------
\* HarParser.get_endpoints (parser.py lines 37-121).
\* ------------------------------------------------------------------------
\* The test of line 54 (and of line 132) without its negation:
\* 'log' in har_data and 'entries' in har_data['log'].  "true", "false",
\* or the exception that `in` or the subscript raises.
HasEntries(har_data) ==
    LET hasLog == PyIn(S_log, har_data)
    IN  IF hasLog # "true" THEN hasLog
        ELSE IF har_data.t # "dict" THEN "TypeError"
        ELSE PyIn(S_entries, har_data.d[S_log])

\* har_data['log']['entries'] of line 59 (and of line 133), reached when
\* the test holds.
EntriesOf(har_data) ==
    LET log == har_data.d[S_log]
    IN  IF log.t # "dict"
        THEN [err |-> "TypeError", entries |-> <<>>]
        ELSE [err |-> "none", entries |-> log.d[S_entries]]

\* The four tests that skip an entry (lines 67, 72, 77 and 81).
DomainSkip(domain, parsed_url) == Truthy(domain) /\ parsed_url.netloc # domain.s

MethodSkip(method, request_method) == Truthy(method) /\ request_method # method.s

StatusSkip(status_code, response_status) ==
    Truthy(status_code) /\ response_status # status_code.n

PathSkip(path_pattern, parsed_url) ==
    Truthy(path_pattern) /\ ~re_search(path_pattern.s, parsed_url.path)

\* A variant of Skipped: the four tests chained with elif, so that only the
\* first filter given decides.
SkippedByFirstFilter(entry, domain, method, status_code, path_pattern) ==
    LET request == Get(entry, "request", EmptyDict)
        response == Get(entry, "response", EmptyDict)
        parsed_url == urlparse(Get(request, "url", <<>>))
    IN  IF Truthy(domain) THEN DomainSkip(domain, parsed_url)
        ELSE IF Truthy(method) THEN MethodSkip(method, Get(request, "method", <<>>))
        ELSE IF Truthy(status_code)
        THEN StatusSkip(status_code, Get(response, "status", 0))
        ELSE PathSkip(path_pattern, parsed_url)

\* Whether the loop body reaches a `continue` (lines 66-82).
Skipped(entry, domain, method, status_code, path_pattern) ==
    LET request == Get(entry, "request", EmptyDict)
        response == Get(entry, "response", EmptyDict)
        parsed_url == urlparse(Get(request, "url", <<>>))
    IN  \/ DomainSkip(domain, parsed_url)
        \/ MethodSkip(method, Get(request, "method", <<>>))
        \/ StatusSkip(status_code, Get(response, "status", 0))
        \/ PathSkip(path_pattern, parsed_url)

\* A variant of FlattenItems: a name keeps the value it was first given.
RECURSIVE FlattenItemsFirstWins(_)
FlattenItemsFirstWins(items) ==
    IF items = <<>> THEN EmptyDict
    ELSE LET last == items[Len(items)]
         IN  FlattenItemsFirstWins(SubSeq(items, 1, Len(items) - 1))
                 @@ (Get(last, "name", <<>>) :> Get(last, "value", <<>>))

\* The dict built from a list of name/value items (lines 85-87 and 90-92):
\* each item is stored under its name, replacing what the name held.
RECURSIVE FlattenItems(_)
FlattenItems(items) ==
    IF items = <<>> THEN EmptyDict
    ELSE LET last == items[Len(items)]
         IN  (Get(last, "name", <<>>) :> Get(last, "value", <<>>))
                 @@ FlattenItems(SubSeq(items, 1, Len(items) - 1))

\* A variant of PostData: the body text is never parsed.
PostDataRawText(request) ==
    IF "postData" \notin DOMAIN request THEN PyNone
    ELSE Get(request.postData, "text", PyStr(<<>>))

\* post_data (lines 95-103).
PostData(request) ==
    IF "postData" \notin DOMAIN request THEN PyNone
    ELSE LET text == Get(request.postData, "text", PyStr(<<>>))
             parsed == json_loads(text)
         IN  IF parsed.err = "none" THEN parsed.value ELSE text

\* endpoint_info (lines 105-117).
EndpointInfo(entry) ==
    LET request == Get(entry, "request", EmptyDict)
        response == Get(entry, "response", EmptyDict)
        url == Get(request, "url", <<>>)
        parsed_url == urlparse(url)
    IN  [url |-> url,
         method |-> Get(request, "method", <<>>),
         protocol |-> parsed_url.scheme,
         domain |-> parsed_url.netloc,
         path |-> parsed_url.path,
         query_params |-> FlattenItems(Get(request, "queryString", <<>>)),
         headers |-> FlattenItems(Get(request, "headers", <<>>)),
         post_data |-> PostData(request),
         status_code |-> Get(response, "status", 0),
         response_size |-> Get(response, "bodySize", 0),
         time |-> Get(entry, "time", 0)]

\* The loop of lines 59-119 from entry i on: urlparse may raise, which ends
\* the call; a skipped entry adds nothing; any other adds its endpoint_info.
RECURSIVE EndpointsFrom(_, _, _, _, _, _)
EndpointsFrom(entries, i, domain, method, status_code, path_pattern) ==
    IF i > Len(entries) THEN [err |-> "none", ret |-> <<>>]
    ELSE LET entry == entries[i]
             url == Get(Get(entry, "request", EmptyDict), "url", <<>>)
         IN  IF ~urlparse(url).ok THEN [err |-> "ValueError", ret |-> <<>>]
             ELSE LET rest == EndpointsFrom(entries, i + 1, domain, method, status_code,
                                            path_pattern)
                  IN  IF rest.err # "none" THEN rest
                      ELSE IF Skipped(entry, domain, method, status_code, path_pattern)
                      THEN rest
                      ELSE [err |-> "none", ret |-> <<EndpointInfo(entry)>> \o rest.ret]

get_endpoints(har_data, domain, method, status_code, path_pattern) ==
    LET has == HasEntries(har_data)
    IN  IF has = "TypeError" THEN [err |-> "TypeError", ret |-> <<>>]
        ELSE IF has = "false" THEN [err |-> "none", ret |-> <<>>]
        ELSE LET list == EntriesOf(har_data)
             IN  IF list.err # "none" THEN [err |-> list.err, ret |-> <<>>]
                 ELSE EndpointsFrom(list.entries, 1, domain, method, status_code,
                                    path_pattern)

\* ------------------------------------------------------------------------
\* HarParser.get_unique_domains (parser.py lines 123-139).
\* ------------------------------------------------------------------------
get_unique_domains(har_data) ==
    LET has == HasEntries(har_data)
    IN  IF has = "TypeError" THEN [err |-> "TypeError", ret |-> {}]
        ELSE IF has = "false" THEN [err |-> "none", ret |-> {}]
        ELSE LET list == EntriesOf(har_data)
                 urls == [i \in 1..Len(list.entries) |->
                             Get(Get(list.entries[i], "request", EmptyDict), "url", <<>>)]
             IN  IF list.err # "none" THEN [err |-> list.err, ret |-> {}]
                 ELSE IF \E i \in 1..Len(urls) : ~urlparse(urls[i]).ok
                 THEN [err |-> "ValueError", ret |-> {}]
                 ELSE [err |-> "none",
                       ret |-> {urlparse(urls[i]).netloc : i \in 1..Len(urls)}]

\* ------------------------------------------------------------------------
\* HarParser.get_api_endpoints (parser.py lines 141-163).
\* ------------------------------------------------------------------------
DefaultApiPatterns == <<P_api, P_ver, P_rest, P_graphql, P_gql, P_json>>

get_api_endpoints(har_data, api_patterns) ==
    LET patterns == IF api_patterns = PyNone THEN DefaultApiPatterns ELSE api_patterns.items
        pattern == join(<<"|">>, patterns)
    IN  get_endpoints(har_data, PyNone, PyNone, PyNone, PyStr(pattern))

\* ------------------------------------------------------------------------
\* HarParser.export_endpoints (parser.py lines 165-204).
\* ------------------------------------------------------------------------
\* str.rfind(c), 1-based; 0 when c does not occur.
RECURSIVE RFind(_, _)
RFind(s, c) ==
    IF s = <<>> THEN 0
    ELSE IF s[Len(s)] = c THEN Len(s)
    ELSE RFind(SubSeq(s, 1, Len(s) - 1), c)

\* os.path.splitext(p)[1]: from the last dot of the last path component,
\* unless only dots precede it in that component.
splitext_ext(p) ==
    LET sepIndex == RFind(p, "/")
        dotIndex == RFind(p, ".")
    IN  IF dotIndex > sepIndex /\ \E k \in (sepIndex + 1)..(dotIndex - 1) : p[k] # "."
        THEN SubSeq(p, dotIndex, Len(p))
        ELSE <<>>

\* A variant of FileExt: the extension as written, without lower().
FileExtAsWritten(output_file) == splitext_ext(output_file)

\* file_ext (line 173).
FileExt(output_file) == lower(splitext_ext(output_file))

\* A file that does not exist, and the content of one that does.
NoFile == [exists |-> FALSE]
OldFile == [exists |-> TRUE, kind |-> "old"]
\* json.dump(endpoints, f, indent=2): a JSON text, given by what it denotes.
JsonFile(endpoints) == [exists |-> TRUE, kind |-> "json", value |-> endpoints]
\* f.write(text).
TextFile(text) == [exists |-> TRUE, kind |-> "text", text |-> text]
\* What csv.DictWriter wrote: the rows, each the texts of its cells.  No
\* string of the model holds a character the writer would quote.
CsvFile(rows) == [exists |-> TRUE, kind |-> "csv", rows |-> rows]

\* fieldnames: flattened[0].keys() (line 200).
FlatKeys ==
    <<F_url, F_method, F_protocol, F_domain, F_path, F_status_code, F_response_size, F_time>>

\* The row writerows writes for flat_ep (lines 187-196 and 202): str values
\* as they are, numbers as str(number).
CsvRow(ep) ==
    <<ep.url, ep.method, ep.protocol, ep.domain, ep.path,
      str_int(ep.status_code), str_int(ep.response_size), str_int(ep.time)>>

\* A variant of CsvContent: no test for the empty list, so an empty list
\* gives a table of the header row alone.
CsvContentHeaderAlways(endpoints) ==
    CsvFile(<<FlatKeys>> \o [i \in 1..Len(endpoints) |-> CsvRow(endpoints[i])])

\* The file the csv branch writes (lines 179-202).
CsvContent(endpoints) ==
    IF endpoints = <<>> THEN TextFile(NoEndpointsFound)
    ELSE CsvFile(<<FlatKeys>> \o [i \in 1..Len(endpoints) |-> CsvRow(endpoints[i])])

export_endpoints(files, endpoints, output_file) ==
    LET file_ext == FileExt(output_file)
    IN  IF file_ext = X_json
        THEN [err |-> "none", files |-> [files EXCEPT ![output_file] = JsonFile(endpoints)]]
        ELSE IF file_ext = X_csv
        THEN [err |-> "none", files |-> [files EXCEPT ![output_file] = CsvContent(endpoints)]]
        ELSE [err |-> "ValueError", files |-> files]


\* ------------------------------------------------------------------------
\* The arguments callers pass.
\* ------------------------------------------------------------------------
DomainArgs == {PyNone, PyStr(<<>>), PyStr(D_a)}
MethodArgs == {PyNone, PyStr(<<>>), PyStr(M_POST)}
StatusArgs == {PyNone, PyInt(0), PyInt(200)}
PatternArgs == {PyNone, PyStr(P_ver)}
ApiPatternArgs ==
    {PyNone} \cup {PyList(ps) : ps \in SeqsUpTo({P_api, P_login}, MaxPatterns)}
OutputFiles == {O_json, O_JSON, O_csv, O_Csv, O_txt, O_none, O_dotcsv, O_bak, O_dir, O_dot}

\* The output directory before the run: some of the names exist.
InitialFiles ==
    [name \in OutputFiles |-> IF name \in {O_json, O_Csv, O_txt, O_bak} THEN OldFile ELSE NoFile]

\* ------------------------------------------------------------------------
\* The state: where main() stands (cli.py lines 78-111), the parser it
\* constructed, the call made last with the exception it raised and the
\* value it returned, main's `endpoints`, and the output files.
\* ------------------------------------------------------------------------
VARIABLES pc, parser, call, err, ret, endpoints, files

vars == <<pc, parser, call, err, ret, endpoints, files>>

NoParser == [exists |-> FALSE]

Init ==
    /\ pc = "start"
    /\ parser = NoParser
    /\ call = [op |-> "none"]
    /\ err = "none"
    /\ ret = PyNone
    /\ endpoints = <<>>
    /\ files = InitialFiles

\* HarParser(har_file_path) (parser.py lines 12-20, cli.py line 81): the
\* object exists once __init__ returns; an exception of _load_har_file
\* leaves none, and main returns 1.
Load(source) ==
    /\ pc = "start"
    /\ LET loaded == load_har_file(source)
       IN  /\ err' = loaded.err
           /\ parser' = IF loaded.err = "none"
                        THEN [exists |-> TRUE, har_file_path |-> source.path,
                              har_data |-> loaded.ret]
                        ELSE NoParser
           /\ pc' = IF loaded.err = "none" THEN "ready" ELSE "done"
    /\ call' = [op |-> "load", source |-> source]
    /\ ret' = PyNone
    /\ UNCHANGED <<endpoints, files>>

\* parser.get_endpoints(...) (cli.py lines 93-98).
GetEndpoints(domain, method, status_code, path_pattern) ==
    /\ pc = "ready"
    /\ LET got == get_endpoints(parser.har_data, domain, method, status_code, path_pattern)
       IN  /\ err' = got.err
           /\ ret' = IF got.err = "none" THEN got.ret ELSE PyNone
           /\ endpoints' = IF got.err = "none" THEN got.ret ELSE endpoints
           /\ pc' = IF got.err = "none" THEN "held" ELSE "done"
    /\ call' = [op |-> "get_endpoints", domain |-> domain, method |-> method,
                status_code |-> status_code, path_pattern |-> path_pattern]
    /\ UNCHANGED <<parser, files>>

\* parser.get_api_endpoints(api_patterns) (cli.py line 91; a caller of the
\* library may pass its own patterns).
GetApiEndpoints(api_patterns) ==
    /\ pc = "ready"
    /\ LET got == get_api_endpoints(parser.har_data, api_patterns)
       IN  /\ err' = got.err
           /\ ret' = IF got.err = "none" THEN got.ret ELSE PyNone
           /\ endpoints' = IF got.err = "none" THEN got.ret ELSE endpoints
           /\ pc' = IF got.err = "none" THEN "held" ELSE "done"
    /\ call' = [op |-> "get_api_endpoints", api_patterns |-> api_patterns]
    /\ UNCHANGED <<parser, files>>

\* parser.get_unique_domains() (cli.py lines 83-88).
GetUniqueDomains ==
    /\ pc = "ready"
    /\ LET got == get_unique_domains(parser.har_data)
       IN  /\ err' = got.err
           /\ ret' = IF got.err = "none" THEN got.ret ELSE PyNone
    /\ pc' = "done"
    /\ call' = [op |-> "get_unique_domains"]
    /\ UNCHANGED <<parser, endpoints, files>>

\* `if parsed_args.output:` (cli.py line 100), taken: the query has returned
\* and main goes on to export the list it holds.
CheckOutput ==
    /\ pc = "held"
    /\ pc' = "export"
    /\ call' = [op |-> "none"]
    /\ ret' = PyNone
    /\ UNCHANGED <<parser, err, endpoints, files>>

\* parser.export_endpoints(endpoints, output) (cli.py lines 101-102).
ExportEndpoints(output_file) ==
    /\ pc = "export"
    /\ LET exported == export_endpoints(files, endpoints, output_file)
       IN  /\ err' = exported.err
           /\ files' = exported.files
    /\ pc' = "done"
    /\ call' = [op |-> "export_endpoints", output_file |-> output_file]
    /\ ret' = PyNone
    /\ UNCHANGED <<parser, endpoints>>

Next ==
    \/ \E source \in Sources : Load(source)
    \/ \E domain \in DomainArgs, method \in MethodArgs, status_code \in StatusArgs,
          path_pattern \in PatternArgs :
           GetEndpoints(domain, method, status_code, path_pattern)
    \/ \E api_patterns \in ApiPatternArgs : GetApiEndpoints(api_patterns)
    \/ GetUniqueDomains
    \/ CheckOutput
    \/ \E output_file \in OutputFiles : ExportEndpoints(output_file)

Spec == Init /\ [][Next]_vars

\* ------------------------------------------------------------------------
\* What the properties below speak of.
\* ------------------------------------------------------------------------
\* Whether a document has an entries list: a 'log' object with an 'entries'
\* key.
HasEntriesList(doc) ==
    /\ doc.t = "dict"
    /\ S_log \in DOMAIN doc.d
    /\ doc.d[S_log].t = "dict"
    /\ S_entries \in DOMAIN doc.d[S_log].d

\* The transactions of a document, in document order.
Transactions(doc) == IF HasEntriesList(doc) THEN doc.d[S_log].d[S_entries] ELSE <<>>

RequestOf(entry) == Get(entry, "request", EmptyDict)
UrlOf(entry) == Get(RequestOf(entry), "url", <<>>)

\* Whether urlparse accepts the url of every transaction.
UrlsParse(doc) ==
    \A i \in 1..Len(Transactions(doc)) : urlparse(UrlOf(Transactions(doc)[i])).ok

\* The format the sink's extension selects, compared case-insensitively.
SinkFormat(output_file) ==
    LET ext == lower(splitext_ext(output_file))
    IN  IF ext = X_json THEN "json" ELSE IF ext = X_csv THEN "csv" ELSE "unsupported"

\* ------------------------------------------------------------------------
\* C1.  For every document with an entries list and every filter
\* combination, get_endpoints returns, in document order, exactly one
\* record for each entry that satisfies every supplied filter: a supplied
\* domain filter keeps the entries whose authority equals it, a supplied
\* method filter those whose method equals it, a non-zero status filter
\* those whose status equals it, a path pattern those whose path contains a
\* match.  Stated here for the documents whose urls urlparse accepts.
\* ------------------------------------------------------------------------
C1_Satisfies(entry, domain, method, status_code, path_pattern) ==
    LET parsed_url == urlparse(UrlOf(entry))
    IN  /\ domain # PyNone => parsed_url.netloc = domain.s
        /\ method # PyNone => Get(RequestOf(entry), "method", <<>>) = method.s
        /\ (status_code # PyNone /\ status_code.n # 0) =>
               Get(Get(entry, "response", EmptyDict), "status", 0) = status_code.n
        /\ path_pattern # PyNone => re_search(path_pattern.s, parsed_url.path)

C1_ExtractKeepsExactlyTheMatching ==
    (/\ call.op = "get_endpoints"
     /\ HasEntriesList(parser.har_data)
     /\ UrlsParse(parser.har_data))
    => LET kept == SelectSeq(Transactions(parser.har_data),
                             LAMBDA e : C1_Satisfies(e, call.domain, call.method,
                                                     call.status_code, call.path_pattern))
       IN  /\ err = "none"
           /\ ret = [i \in 1..Len(kept) |-> EndpointInfo(kept[i])]

\* ------------------------------------------------------------------------
\* C2.  For every document missing the entries list, whatever the type of
\* the decoded root or of the 'log' value, get_endpoints returns the empty
\* sequence and get_unique_domains the empty set; neither raises.
\* ------------------------------------------------------------------------
C2_MissingEntriesGiveEmpty ==
    (parser.exists /\ ~HasEntriesList(parser.har_data))
    => /\ call.op = "get_endpoints" => (err = "none" /\ ret = <<>>)
       /\ call.op = "get_unique_domains" => (err = "none" /\ ret = {})

\* ------------------------------------------------------------------------
\* C3.  Loading has exactly one of three outcomes: FileNotFoundError when
\* the source does not exist or is unreadable; ValueError when it is
\* readable and its content is not JSON; otherwise success, the held
\* document being the decoded content.  No parser exists after a failure.
\* ------------------------------------------------------------------------
C3_LoadOutcomes ==
    call.op = "load"
    => LET source == call.source
       IN  \/ /\ source.kind \in {"missing", "directory", "denied"}
              /\ err = "FileNotFoundError"
              /\ ~parser.exists
           \/ /\ source.kind = "file"
              /\ ~source.json
              /\ err = "ValueError"
              /\ ~parser.exists
           \/ /\ source.kind = "file"
              /\ source.json
              /\ err = "none"
              /\ parser.exists
              /\ parser.har_data = source.value

\* ------------------------------------------------------------------------
\* C4.  For every document and every pattern set P (the default set when
\* none is given, otherwise the caller's, an empty one included),
\* get_api_endpoints returns, in document order, exactly the records of the
\* unfiltered get_endpoints whose path is matched by at least one pattern
\* of P.
\* ------------------------------------------------------------------------
C4_ApiLikeIsPatternSubset ==
    call.op = "get_api_endpoints"
    => LET P == IF call.api_patterns = PyNone THEN DefaultApiPatterns
                ELSE call.api_patterns.items
           all == get_endpoints(parser.har_data, PyNone, PyNone, PyNone, PyNone)
       IN  /\ err = all.err
           /\ err = "none" =>
                  ret = SelectSeq(all.ret,
                                  LAMBDA r : \E i \in 1..Len(P) : re_search(P[i], r.path))

\* ------------------------------------------------------------------------
\* C5.  CSV export of a record sequence R: if R is empty the sink's whole
\* content is the text 'No endpoints found', with no header row; otherwise
\* the sink holds the header row url, method, protocol, domain, path,
\* status_code, response_size, time followed by exactly one data row per
\* record of R, in order, each carrying only those eight fields.
\* ------------------------------------------------------------------------
C5_Header ==
    <<F_url, F_method, F_protocol, F_domain, F_path, F_status_code, F_response_size, F_time>>

C5_CsvExport ==
    (call.op = "export_endpoints" /\ SinkFormat(call.output_file) = "csv")
    => LET sink == files[call.output_file]
           R == endpoints
       IN  IF R = <<>>
           THEN sink = [exists |-> TRUE, kind |-> "text", text |-> NoEndpointsFound]
           ELSE /\ sink.exists
                /\ sink.kind = "csv"
                /\ Len(sink.rows) = Len(R) + 1
                /\ sink.rows[1] = C5_Header
                /\ \A i \in 1..Len(R) :
                       sink.rows[i + 1] =
                           <<R[i].url, R[i].method, R[i].protocol, R[i].domain, R[i].path,
                             str_int(R[i].status_code), str_int(R[i].response_size),
                             str_int(R[i].time)>>

\* A csv export of two or more records, not all alike.
C5_Witness ==
    /\ call.op = "export_endpoints"
    /\ SinkFormat(call.output_file) = "csv"
    /\ Len(endpoints) >= 2
    /\ endpoints[1] # endpoints[2]
    /\ files[call.output_file].kind = "csv"

\* ------------------------------------------------------------------------
\* C6.  export_endpoints selects the format from the sink's extension
\* only, compared case-insensitively: json and csv are accepted, every
\* other extension (no extension included) fails with ValueError for every
\* record sequence.  On that failure the sink is neither created nor
\* modified, and the record sequence and the loaded document are unchanged.
\* ------------------------------------------------------------------------
C6_ExportStep ==
    (pc = "export" /\ pc' = "done")
    => LET output_file == call'.output_file
           format == SinkFormat(output_file)
       IN  /\ format = "json" =>
                  (err' = "none" /\ files'[output_file].exists
                   /\ files'[output_file].kind = "json")
           /\ format = "csv" =>
                  (err' = "none" /\ files'[output_file].exists
                   /\ files'[output_file].kind \in {"csv", "text"})
           /\ format = "unsupported" =>
                  (err' = "ValueError" /\ files' = files /\ endpoints' = endpoints
                   /\ parser' = parser)

C6_ExtensionSelectsFormat == [][C6_ExportStep]_vars

\* An export that failed on a sink that does not exist, holding records;
\* (the accepted upper-case extensions are reached as well, see C5_Witness).
C6_Witness ==
    /\ call.op = "export_endpoints"
    /\ err = "ValueError"
    /\ endpoints # <<>>
    /\ ~files[call.output_file].exists
    /\ call.output_file = O_dotcsv

\* ------------------------------------------------------------------------
\* C7.  Filtering is commutative and idempotent: applying the filter
\* predicates in any order, stopping at the first that fails, selects the
\* same sequence as the order domain, method, status, path pattern of
\* get_endpoints; and applying the same filters to the records already
\* selected selects all of them again.
\* ------------------------------------------------------------------------
\* The nth filter predicate, on an entry.
C7_Fails(n, entry, c) ==
    LET parsed_url == urlparse(UrlOf(entry))
    IN  CASE n = 1 -> DomainSkip(c.domain, parsed_url)
          [] n = 2 -> MethodSkip(c.method, Get(RequestOf(entry), "method", <<>>))
          [] n = 3 -> StatusSkip(c.status_code,
                                 Get(Get(entry, "response", EmptyDict), "status", 0))
          [] n = 4 -> PathSkip(c.path_pattern, parsed_url)

\* The predicates applied in the order order[k], order[k + 1], ...
RECURSIVE C7_PassesInOrder(_, _, _, _)
C7_PassesInOrder(order, k, entry, c) ==
    IF k > 4 THEN TRUE
    ELSE IF C7_Fails(order[k], entry, c) THEN FALSE
    ELSE C7_PassesInOrder(order, k + 1, entry, c)

\* The same predicates on a record already selected.
C7_RecordPasses(r, c) ==
    /\ ~DomainSkip(c.domain, [netloc |-> r.domain])
    /\ ~MethodSkip(c.method, r.method)
    /\ ~StatusSkip(c.status_code, r.status_code)
    /\ ~PathSkip(c.path_pattern, [path |-> r.path])

C7_Orders == {order \in [1..4 -> 1..4] : \A n \in 1..4 : \E k \in 1..4 : order[k] = n}

C7_FilterOrderAndIdempotence ==
    (call.op = "get_endpoints" /\ err = "none")
    => /\ \A order \in C7_Orders :
              LET kept == SelectSeq(Transactions(parser.har_data),
                                    LAMBDA e : C7_PassesInOrder(order, 1, e, call))
              IN  ret = [i \in 1..Len(kept) |-> EndpointInfo(kept[i])]
       /\ SelectSeq(ret, LAMBDA r : C7_RecordPasses(r, call)) = ret

\* Two filters in force, one entry kept and one rejected.
C7_Witness ==
    /\ call.op = "get_endpoints"
    /\ err = "none"
    /\ Truthy(call.status_code)
    /\ Truthy(call.path_pattern)
    /\ Len(ret) = 1
    /\ Len(Transactions(parser.har_data)) = 2

\* ------------------------------------------------------------------------
\* C8.  For every document, get_unique_domains returns exactly the set of
\* URL authority components of all entries, which is the set of domain
\* fields of the records of the unfiltered get_endpoints.  Stated here for
\* the documents with an entries list.
\* ------------------------------------------------------------------------
C8_DomainsAreTheAuthorities ==
    (call.op = "get_unique_domains" /\ HasEntriesList(parser.har_data))
    => LET entries == Transactions(parser.har_data)
           all == get_endpoints(parser.har_data, PyNone, PyNone, PyNone, PyNone)
       IN  /\ err = "none"
           /\ ret = {urlparse(UrlOf(entries[i])).netloc : i \in 1..Len(entries)}
           /\ all.err = "none"
           /\ ret = {all.ret[i].domain : i \in 1..Len(all.ret)}

\* ------------------------------------------------------------------------
\* The entries whose records a returned get_endpoints call holds: those the
\* loop did not skip, in document order.  The ith record derives from the
\* ith of them.
\* ------------------------------------------------------------------------
KeptEntries ==
    SelectSeq(Transactions(parser.har_data),
              LAMBDA e : ~Skipped(e, call.domain, call.method, call.status_code,
                                  call.path_pattern))

\* ------------------------------------------------------------------------
\* C9.  For every record returned by get_endpoints, headers and
\* query_params are the last-value-wins flattening of the entry's header
\* list and query-parameter list: the keys are the names occurring in the
\* list (an item without a name counts as the empty name), each key maps to
\* the value of the last item carrying that name (the empty string if that
\* item has no value); an absent list yields the empty mapping.
\* ------------------------------------------------------------------------
C9_LastValueWins(items, mapping) ==
    /\ DOMAIN mapping = {Get(items[j], "name", <<>>) : j \in 1..Len(items)}
    /\ \A j \in 1..Len(items) :
           (\A later \in (j + 1)..Len(items) :
                Get(items[later], "name", <<>>) # Get(items[j], "name", <<>>))
           => mapping[Get(items[j], "name", <<>>)] = Get(items[j], "value", <<>>)

C9_FlattenIsLastValueWins ==
    (call.op = "get_endpoints" /\ err = "none")
    => /\ Len(ret) = Len(KeptEntries)
       /\ \A i \in 1..Len(ret) :
              LET request == RequestOf(KeptEntries[i])
              IN  /\ C9_LastValueWins(Get(request, "headers", <<>>), ret[i].headers)
                  /\ C9_LastValueWins(Get(request, "queryString", <<>>), ret[i].query_params)

\* A record whose entry repeats a header name with another value, and one
\* whose items lack a name or a value.
C9_Witness ==
    /\ call.op = "get_endpoints"
    /\ err = "none"
    /\ Len(ret) = 2
    /\ KeptEntries = <<E_get_v1, E_rel_json>>
    /\ ret[1].headers[H_A] = V_2
    /\ ret[2].headers[<<>>] = V_1
    /\ ret[2].query_params[H_A] = <<>>

\* ------------------------------------------------------------------------
\* C10.  For every record returned by get_endpoints, post_data is None
\* exactly when the entry's request has no postData; when it has one,
\* post_data is the parsed JSON value if the body text is valid JSON and
\* otherwise the body text verbatim (the empty string when the payload
\* carries no text); a body that is not JSON never makes get_endpoints fail
\* or skip the entry.
\* ------------------------------------------------------------------------
\* What the claim says post_data is, given a request with a postData.
C10_BodyValue(request) ==
    LET text == Get(request.postData, "text", PyStr(<<>>))
    IN  IF json_loads(text).err = "none" THEN json_loads(text).value ELSE text

\* No failure and no skipped entry on account of a body.
C10_BodyNeverFails ==
    /\ (call.op = "get_endpoints" /\ HasEntriesList(parser.har_data)
        /\ UrlsParse(parser.har_data)) => err = "none"
    /\ (call.op = "get_endpoints" /\ err = "none"
        /\ call.domain = PyNone /\ call.method = PyNone
        /\ call.status_code = PyNone /\ call.path_pattern = PyNone)
       => Len(ret) = Len(Transactions(parser.har_data))

\* The claim as written: None exactly when there is no postData.
C10_PostDataNoneIffNoBody ==
    /\ C10_BodyNeverFails
    /\ (call.op = "get_endpoints" /\ err = "none")
       => /\ Len(ret) = Len(KeptEntries)
          /\ \A i \in 1..Len(ret) :
                 LET request == RequestOf(KeptEntries[i])
                 IN  /\ ret[i].post_data = PyNone <=> "postData" \notin DOMAIN request
                     /\ "postData" \in DOMAIN request
                        => ret[i].post_data = C10_BodyValue(request)

\* As amended: None when there is no postData, and otherwise the parsed
\* value or the text, which is None as well when the text is the JSON
\* literal null.
C10_PostData ==
    /\ C10_BodyNeverFails
    /\ (call.op = "get_endpoints" /\ err = "none")
       => /\ Len(ret) = Len(KeptEntries)
          /\ \A i \in 1..Len(ret) :
                 LET request == RequestOf(KeptEntries[i])
                 IN  /\ "postData" \notin DOMAIN request => ret[i].post_data = PyNone
                     /\ "postData" \in DOMAIN request
                        => ret[i].post_data = C10_BodyValue(request)
                     /\ ("postData" \in DOMAIN request /\ ret[i].post_data = PyNone)
                        => Get(request.postData, "text", PyStr(<<>>)) \in {PyStr(T_null), PyNone}

\* Records of a body that is not JSON (kept verbatim), of a JSON body
\* (parsed), of a body without text, and of the body null.
C10_Witness ==
    /\ call.op = "get_endpoints"
    /\ err = "none"
    /\ \E i \in 1..Len(ret) :
           KeptEntries[i] = E_rel_json /\ ret[i].post_data = PyNone
    /\ \E i \in 1..Len(ret) :
           \/ KeptEntries[i] = E_post_login /\ ret[i].post_data = PyStr(T_form)
           \/ KeptEntries[i] = E_post_api /\ ret[i].post_data = PyInt(1)
           \/ KeptEntries[i] = E_gql /\ ret[i].post_data = PyStr(<<>>)

====
